---- MODULE Spec2Model ----
(***************************************************************************)
(* Model of set-process-name (src/index.js): runtime and platform          *)
(* detection, the process.title mechanism, the Linux prctl mechanism       *)
(* through the Bun and Deno FFI, the two entry points setProcessName and   *)
(* setProcessNameSync, getProcessName and getCapabilities.                 *)
(*                                                                         *)
(* Strings are sequences of UTF-16 code units (naturals).  The values      *)
(* undefined and null of a string-valued slot are the one-element          *)
(* sequences Undefined and Null, which no string contains.                 *)
(***************************************************************************)
EXTENDS Integers, Sequences, FiniteSets, TLC

VARIABLES env, title, argv0, comm, denoLibcHandle, pend, last

vars == <<env, title, argv0, comm, denoLibcHandle, pend, last>>

-----------------------------------------------------------------------------
(* Bounds of the model and constants of the program *)

\* longest name the callers of the model pass
MaxLen == 16

\* longest title a clipping title facility keeps
TitleCap == 4

\* most calls of setProcessName in flight at once
MaxInFlight == 2

\* name.slice(0, 15)
NameLimit == 15

\* const PR_SET_NAME = 15
PR_SET_NAME == 15

\* "PR_SET_NAME accepts up to 16 bytes including the null terminator"
CommBytes == 16

Undefined == <<-1>>
Null == <<-2>>

\* the title and the comm name of a freshly started process: "node"
InitialName == <<110, 111, 100, 101>>

-----------------------------------------------------------------------------
(* Strings *)

Min(a, b) == IF a < b THEN a ELSE b

\* String.prototype.slice(0, n)
Slice(s, n) == SubSeq(s, 1, Min(n, Len(s)))

IsHighSurrogate(c) == c >= 55296 /\ c <= 56319
IsLowSurrogate(c) == c >= 56320 /\ c <= 57343

\* the UTF-8 bytes of one code point
Utf8CodePoint(cp) ==
    IF cp < 128 THEN <<cp>>
    ELSE IF cp < 2048 THEN <<192 + (cp \div 64), 128 + (cp % 64)>>
    ELSE IF cp < 65536
         THEN <<224 + (cp \div 4096), 128 + ((cp \div 64) % 64), 128 + (cp % 64)>>
    ELSE <<240 + (cp \div 262144), 128 + ((cp \div 4096) % 64),
           128 + ((cp \div 64) % 64), 128 + (cp % 64)>>

RECURSIVE Utf8(_)
\* Buffer.from(string) and TextEncoder.encode(string): a surrogate pair is one
\* code point, a lone surrogate is encoded as U+FFFD
Utf8(s) ==
    IF s = <<>> THEN <<>>
    ELSE IF IsHighSurrogate(s[1]) /\ Len(s) >= 2 /\ IsLowSurrogate(s[2])
         THEN Utf8CodePoint(65536 + (s[1] - 55296) * 1024 + (s[2] - 56320))
              \o Utf8(Tail(Tail(s)))
    ELSE IF IsHighSurrogate(s[1]) \/ IsLowSurrogate(s[1])
         THEN Utf8CodePoint(65533) \o Utf8(Tail(s))
    ELSE Utf8CodePoint(s[1]) \o Utf8(Tail(s))

RECURSIVE CString(_)
\* the bytes of a buffer before its first NUL
CString(b) ==
    IF b = <<>> \/ b[1] = 0 THEN <<>> ELSE <<b[1]>> \o CString(Tail(b))

\* what the kernel keeps of the buffer handed to prctl(PR_SET_NAME, buf): the
\* C string in its first 16 bytes, at most 15 bytes
KernelComm(buf) == CString(Slice(buf, CommBytes - 1))

B(b) == IF b THEN "true" ELSE "false"

-----------------------------------------------------------------------------
(* Inputs *)

\* "", "ab", "a\0"
ShortNames == { <<>>, <<97, 98>>, <<97, 0>> }

\* "abc", and an emoji (a surrogate pair, four bytes in UTF-8)
Patterns == { <<97, 98, 99>>, <<55357, 56832>> }

\* the pattern p repeated up to n code units
Cyc(p, n) == [i \in 1..n |-> p[((i - 1) % Len(p)) + 1]]

\* the short names, and each pattern at the lengths from the limit on
Names == ShortNames \cup { Cyc(p, n) : p \in Patterns, n \in NameLimit .. MaxLen }

StringArg(s) == [type |-> "string", val |-> s]
NonStringTypes == {"number", "null", "undefined", "object"}
NonStringArg(t) == [type |-> t, val |-> <<>>]

Args == { StringArg(s) : s \in Names } \cup { NonStringArg(t) : t \in NonStringTypes }

-----------------------------------------------------------------------------
(* Environments: the globals the module looks at and the behaviour of the
   facilities it calls *)

\* Deno.build.os
DenoOs == {"linux", "darwin", "windows", "freebsd"}

\* process.platform of the Deno process shim
ShimPlatform(os) == IF os = "windows" THEN "win32" ELSE os

Globals ==
    \* Deno, with or without a process global
    { [hasDeno |-> TRUE, denoOs |-> os, hasProcess |-> hp,
       versions |-> IF hp THEN {"node"} ELSE {},
       platform |-> IF hp THEN ShimPlatform(os) ELSE ""]
        : os \in DenoOs, hp \in BOOLEAN }
    \cup
    \* Node ({"node"}) or Bun ({"node", "bun"})
    { [hasDeno |-> FALSE, denoOs |-> "", hasProcess |-> TRUE,
       versions |-> v, platform |-> p]
        : v \in {{"node"}, {"node", "bun"}},
          p \in {"linux", "darwin", "win32", "freebsd"} }
    \cup
    \* a bare process object, with or without a platform
    { [hasDeno |-> FALSE, denoOs |-> "", hasProcess |-> TRUE,
       versions |-> {}, platform |-> p] : p \in {"linux", ""} }
    \cup
    \* neither global
    { [hasDeno |-> FALSE, denoOs |-> "", hasProcess |-> FALSE,
       versions |-> {}, platform |-> ""] }

TitleModes == {"store", "clip", "throw"}
Argv0Modes == {"store", "throw"}
NativeModes == {"ok", "importFails", "dlopenFails", "prctlThrows", "prctlFails"}

\* the facilities an environment has behave in every way; a facility it does
\* not have (no process object, no FFI on a Linux host) behaves in one way
HasFFI(g) ==
    \/ g.hasDeno /\ g.denoOs = "linux"
    \/ ~g.hasDeno /\ "bun" \in g.versions /\ g.platform = "linux"

Envs ==
    { [g |-> g, titleMode |-> tm, argv0Mode |-> am, native |-> nm]
        : g \in { x \in Globals : x.hasProcess /\ HasFFI(x) },
          tm \in TitleModes, am \in Argv0Modes, nm \in NativeModes }
    \cup
    { [g |-> g, titleMode |-> tm, argv0Mode |-> am, native |-> "ok"]
        : g \in { x \in Globals : x.hasProcess /\ ~HasFFI(x) },
          tm \in TitleModes, am \in Argv0Modes }
    \cup
    { [g |-> g, titleMode |-> "store", argv0Mode |-> "store", native |-> nm]
        : g \in { x \in Globals : ~x.hasProcess /\ HasFFI(x) }, nm \in NativeModes }
    \cup
    { [g |-> g, titleMode |-> "store", argv0Mode |-> "store", native |-> "ok"]
        : g \in { x \in Globals : ~x.hasProcess /\ ~HasFFI(x) } }

-----------------------------------------------------------------------------
(* Detection *)

\* mutant of detectRuntime: the process global looked at before the Deno one
detectRuntime_ProcessFirst(e) ==
    IF e.g.hasProcess /\ "bun" \in e.g.versions THEN "bun"
    ELSE IF e.g.hasProcess /\ "node" \in e.g.versions THEN "node"
    ELSE IF e.g.hasDeno THEN "deno"
    ELSE "unknown"

detectRuntime(e) ==
    IF e.g.hasDeno THEN "deno"
    ELSE IF e.g.hasProcess /\ "bun" \in e.g.versions THEN "bun"
    ELSE IF e.g.hasProcess /\ "node" \in e.g.versions THEN "node"
    ELSE "unknown"

detectPlatform(e) ==
    IF e.g.hasDeno
    THEN (IF e.g.denoOs = "linux" THEN "linux"
          ELSE IF e.g.denoOs = "darwin" THEN "darwin"
          ELSE IF e.g.denoOs = "windows" THEN "win32"
          ELSE "unknown")
    ELSE IF e.g.hasProcess /\ e.g.platform # "" THEN e.g.platform
    ELSE "unknown"

-----------------------------------------------------------------------------
(* The world a call acts on: [title, argv0, comm, handle], and the log of the
   facility calls one call of an entry point makes *)

World == [title |-> title, argv0 |-> argv0, comm |-> comm, handle |-> denoLibcHandle]

\* titleW, argvW: the values written to process.title and process.argv0;
\* imp, dl, cl: the imports of bun:ffi, the dlopen calls and the close calls;
\* prctlS, prctlW: the strings encoded for prctl and the buffers handed to it;
\* order: the mechanisms in the order they were invoked
EmptyLog == [titleW |-> <<>>, argvW |-> <<>>, imp |-> 0, dl |-> 0, cl |-> 0,
             prctlS |-> <<>>, prctlW |-> <<>>, order |-> <<>>]

\* process is the real Node.js process object, whose title setter is libuv's
IsLibuvProcess(e) == ~e.g.hasDeno /\ e.g.hasProcess /\ e.g.versions = {"node"}

\* process.title = name
TitleWrite(e, w, name) ==
    IF e.titleMode = "throw" THEN [thrown |-> TRUE, w |-> w]
    ELSE LET kept == IF e.titleMode = "clip" THEN Slice(name, TitleCap) ELSE name
         IN  [thrown |-> FALSE,
              w |-> [w EXCEPT !.title = kept,
                              !.comm = IF IsLibuvProcess(e) /\ e.g.platform = "linux"
                                       THEN KernelComm(Utf8(kept \o <<0>>))
                                       ELSE @]]

\* process.argv0 = name
Argv0Write(e, w, name) ==
    IF e.argv0Mode = "throw" THEN [thrown |-> TRUE, w |-> w]
    ELSE [thrown |-> FALSE, w |-> [w EXCEPT !.argv0 = name]]

\* dlopen('libc.so.6', ...)
DlopenThrows(e) == e.native = "dlopenFails"

\* libc.symbols.prctl(op, buf): the status, or a throw; status 0 sets comm
Prctl(e, w, op, buf) ==
    IF e.native = "prctlThrows" THEN [thrown |-> TRUE, status |-> -1, w |-> w]
    ELSE IF e.native = "prctlFails" \/ op # PR_SET_NAME
         THEN [thrown |-> FALSE, status |-> -1, w |-> w]
    ELSE [thrown |-> FALSE, status |-> 0, w |-> [w EXCEPT !.comm = KernelComm(buf)]]

-----------------------------------------------------------------------------
(* The native mechanism *)

\* mutant of truncatedName: the 16 bytes of the buffer taken for the limit
truncatedName_OffByOne(name) == Slice(name, NameLimit + 1)

\* const truncatedName = name.slice(0, 15)
truncatedName(name) == Slice(name, NameLimit)

\* Buffer.from(`${truncatedName}\0`), encoder.encode(`${truncatedName}\0`)
nativeBuffer(name) == Utf8(truncatedName(name) \o <<0>>)

LogDlopen(log) == [log EXCEPT !.dl = @ + 1]

LogPrctl(log, name) ==
    [log EXCEPT !.prctlS = Append(@, truncatedName(name)),
                !.prctlW = Append(@, nativeBuffer(name)),
                !.order = Append(@, "prctl")]

Failed(w, log) == [ret |-> FALSE, w |-> w, log |-> log]

\* libc.close(); return result === 0, or the catch when the call c threw
bunResult(w, log, c) ==
    IF c.thrown THEN Failed(w, log)
    ELSE [ret |-> c.status = 0, w |-> c.w, log |-> [log EXCEPT !.cl = @ + 1]]

\* setProcessNameLinuxBunFFI after its await import('bun:ffi') has settled
setProcessNameLinuxBunFFI(e, w, log, name) ==
    IF e.native = "importFails" THEN Failed(w, log)
    ELSE IF DlopenThrows(e) THEN Failed(w, LogDlopen(log))
    ELSE bunResult(w, LogPrctl(LogDlopen(log), name),
                   Prctl(e, w, PR_SET_NAME, nativeBuffer(name)))

\* mutant of denoHandleAfterCall: the handle closed after the call, as the Bun
\* path does, and still cached
denoHandleAfterCall_Close(h) == "closed"

\* "Note: We don't close the handle - it will be reused"
denoHandleAfterCall(h) == h

\* mutant of denoResult: a call that did not throw taken for a success
denoResult_IgnoresStatus(w, log, c) ==
    IF c.thrown THEN Failed(w, log)
    ELSE [ret |-> TRUE,
          w |-> [c.w EXCEPT !.handle = denoHandleAfterCall(@)],
          log |-> log]

\* return result === 0, or the catch when the call c threw
denoResult(w, log, c) ==
    IF c.thrown THEN Failed(w, log)
    ELSE [ret |-> c.status = 0,
          w |-> [c.w EXCEPT !.handle = denoHandleAfterCall(@)],
          log |-> log]

\* mutant of denoCall: a call that failed made a second time
denoCall_Retry(e, w, log, name) ==
    IF w.handle = "closed" THEN Failed(w, log)
    ELSE IF e.native = "ok"
         THEN denoResult(w, LogPrctl(log, name),
                         Prctl(e, w, PR_SET_NAME, nativeBuffer(name)))
    ELSE denoResult(w, LogPrctl(LogPrctl(log, name), name),
                    Prctl(e, w, PR_SET_NAME, nativeBuffer(name)))

\* denoLibcHandle.symbols.prctl(PR_SET_NAME, buf); a call through a closed
\* library handle throws
denoCall(e, w, log, name) ==
    IF w.handle = "closed" THEN Failed(w, log)
    ELSE denoResult(w, LogPrctl(log, name),
                    Prctl(e, w, PR_SET_NAME, nativeBuffer(name)))

\* mutant of setProcessNameLinuxDenoFFI: the library opened on every call
setProcessNameLinuxDenoFFI_NoCache(e, w, log, name) ==
    IF DlopenThrows(e) THEN Failed(w, LogDlopen(log))
    ELSE denoCall(e, [w EXCEPT !.handle = "open"], LogDlopen(log), name)

\* setProcessNameLinuxDenoFFI
setProcessNameLinuxDenoFFI(e, w, log, name) ==
    IF w.handle # "null" THEN denoCall(e, w, log, name)
    ELSE IF DlopenThrows(e) THEN Failed(w, LogDlopen(log))
    ELSE denoCall(e, [w EXCEPT !.handle = "open"], LogDlopen(log), name)

-----------------------------------------------------------------------------
(* The entry points *)

NoResult == [success |-> FALSE, processTitle |-> "none", prctl |-> "none",
             runtime |-> "none", platform |-> "none"]

\* mutant of typeCheckFails: null let through
typeCheckFails_NullPasses(arg) == arg.type \notin {"string", "null"}

\* if (typeof name !== 'string') throw new TypeError(...)
typeCheckFails(arg) == arg.type # "string"

\* mutant of titleResult: a catch that records nothing
titleResult_EmptyCatch(w, r, name, t) ==
    IF t.thrown
    THEN [thrown |-> FALSE, r |-> r, w |-> w]
    ELSE [thrown |-> FALSE,
          r |-> [r EXCEPT !.processTitle = B(t.w.title = name),
                          !.success = (t.w.title = name)],
          w |-> t.w]

\* result.processTitle = process.title === name; result.success =
\* result.processTitle, or the catch when the write t threw
titleResult(w, r, name, t) ==
    IF t.thrown
    THEN [thrown |-> FALSE, r |-> [r EXCEPT !.processTitle = "false"], w |-> w]
    ELSE [thrown |-> FALSE,
          r |-> [r EXCEPT !.processTitle = B(t.w.title = name),
                          !.success = (t.w.title = name)],
          w |-> t.w]

\* mutant of tryTitle: the title given the name cut for prctl
tryTitle_Truncated(e, w, r, name) ==
    titleResult(w, r, name, TitleWrite(e, w, truncatedName(name)))

\* try { process.title = name; ... } catch { result.processTitle = false }
tryTitle(e, w, r, name) == titleResult(w, r, name, TitleWrite(e, w, name))

argv0Result(w, a) == [thrown |-> FALSE, w |-> IF a.thrown THEN w ELSE a.w]

\* mutant of tryArgv0: the write without its try
tryArgv0_NoCatch(e, w, name) == Argv0Write(e, w, name)

\* try { process.argv0 = name } catch { }
tryArgv0(e, w, name) == argv0Result(w, Argv0Write(e, w, name))

\* the title step t and the argv0 step a put together
titleStepResult(log, name, t, a) ==
    [thrown |-> t.thrown \/ a.thrown, r |-> t.r, w |-> a.w,
     log |-> [log EXCEPT !.titleW = Append(@, name),
                         !.argvW = Append(@, name),
                         !.order = Append(@, "title")]]

titleStepArgv0(e, log, name, t) ==
    titleStepResult(log, name, t, tryArgv0(e, t.w, name))

\* if (typeof process !== 'undefined') { title; argv0 }
titleStep(e, w, r, log, name) ==
    IF ~e.g.hasProcess THEN [thrown |-> FALSE, r |-> r, w |-> w, log |-> log]
    ELSE titleStepArgv0(e, log, name, tryTitle(e, w, r, name))

\* mutant of mergeSuccess: result.success = result.prctl
mergeSuccess_Overwrite(success, prctl) == prctl

\* result.success = result.success || result.prctl
mergeSuccess(success, prctl) == success \/ prctl

\* mutant of asyncNativePath: the platform not looked at
asyncNativePath_AnyPlatform(platform, runtime) ==
    IF runtime = "bun" THEN "bun" ELSE IF runtime = "deno" THEN "deno" ELSE "none"

\* which FFI path setProcessName takes
asyncNativePath(platform, runtime) ==
    IF platform = "linux"
    THEN (IF runtime = "bun" THEN "bun" ELSE IF runtime = "deno" THEN "deno" ELSE "none")
    ELSE "none"

\* mutant of syncNativePath: no native step in the blocking entry point
syncNativePath_NoDeno(platform, runtime) == "none"

\* which FFI path setProcessNameSync takes
syncNativePath(platform, runtime) ==
    IF platform = "linux" /\ runtime = "deno" THEN "deno" ELSE "none"

\* mutant of FreshResult: the platform read off process.platform
FreshResult_RawPlatform(e) ==
    [success |-> FALSE, processTitle |-> "null", prctl |-> "null",
     runtime |-> detectRuntime(e),
     platform |-> IF e.g.hasProcess /\ e.g.platform # "" THEN e.g.platform
                  ELSE "unknown"]

\* const result = { success: false, processTitle: null, prctl: null, runtime,
\* platform }
FreshResult(e) ==
    [success |-> FALSE, processTitle |-> "null", prctl |-> "null",
     runtime |-> detectRuntime(e), platform |-> detectPlatform(e)]

Thrown(outcome, w, log) == [outcome |-> outcome, r |-> NoResult, w |-> w, log |-> log]

\* result.prctl = <the FFI result n>; result.success = ...; return result
withPrctl(r, n) ==
    [outcome |-> "returned",
     r |-> [r EXCEPT !.prctl = B(n.ret), !.success = mergeSuccess(@, n.ret)],
     w |-> n.w, log |-> n.log]

withoutPrctl(t) == [outcome |-> "returned", r |-> t.r, w |-> t.w, log |-> t.log]

\* setProcessNameSync after the title step t
syncNativeStep(e, name, t) ==
    IF t.thrown THEN Thrown("Error", t.w, t.log)
    ELSE IF syncNativePath(t.r.platform, t.r.runtime) = "deno"
         THEN withPrctl(t.r, setProcessNameLinuxDenoFFI(e, t.w, t.log, name))
    ELSE withoutPrctl(t)

\* setProcessNameSync(arg) in world w
setProcessNameSync(e, w, arg) ==
    IF typeCheckFails(arg) THEN Thrown("TypeError", w, EmptyLog)
    ELSE syncNativeStep(e, arg.val, titleStep(e, w, FreshResult(e), EmptyLog, arg.val))

\* setProcessName after the title step t, on the FFI path path
asyncNativeStep(e, name, t, path) ==
    IF t.thrown THEN Thrown("Error", t.w, t.log)
    ELSE IF path = "bun"
         THEN [outcome |-> "pending", r |-> t.r, w |-> t.w,
               log |-> [t.log EXCEPT !.imp = @ + 1]]
    ELSE IF path = "deno"
         THEN withPrctl(t.r, setProcessNameLinuxDenoFFI(e, t.w, t.log, name))
    ELSE withoutPrctl(t)

\* setProcessName(arg) in world w, up to its first await ("pending") or its end
setProcessName(e, w, arg) ==
    IF typeCheckFails(arg) THEN Thrown("TypeError", w, EmptyLog)
    ELSE asyncNativeStep(e, arg.val,
                         titleStep(e, w, FreshResult(e), EmptyLog, arg.val),
                         asyncNativePath(detectPlatform(e), detectRuntime(e)))

\* a call out of setProcessName run to its end: a pending one waits for the
\* import, runs setProcessNameLinuxBunFFI and resumes with its result
awaited(e, name, out) ==
    IF out.outcome # "pending" THEN out
    ELSE withPrctl(out.r, setProcessNameLinuxBunFFI(e, out.w, out.log, name))

\* await setProcessName(arg), with nothing of the caller's in between
awaitSetProcessName(e, w, arg) == awaited(e, arg.val, setProcessName(e, w, arg))

-----------------------------------------------------------------------------
(* Queries *)

getProcessName(e, w) ==
    IF e.g.hasProcess /\ w.title # Undefined /\ w.title # <<>> THEN w.title ELSE Null

getCapabilities(e, w) ==
    [canSetTitle |-> e.g.hasProcess /\ w.title # Undefined,
     canSetPrctl |-> detectPlatform(e) = "linux"
                     /\ (detectRuntime(e) = "node" \/ detectRuntime(e) = "bun"),
     runtime |-> detectRuntime(e),
     platform |-> detectPlatform(e)]

-----------------------------------------------------------------------------
(* The state machine.  last is the most recently completed call of an entry
   point or of a query: its argument, how it ended ("returned", "answered",
   "TypeError", "Error"), the record it returned, the facility calls it made,
   the world it left, and whether it and the call completed before it ended
   alike, out of the same function with the same argument.  pend holds the
   calls of setProcessName that a caller has not awaited and that are
   suspended at an await; the callers of Spec await every call, those of
   SpecInFlight do not. *)

NoCall(w) ==
    [op |-> "none", arg |-> NonStringArg("undefined"), outcome |-> "none",
     r |-> NoResult, log |-> EmptyLog, w |-> w, rep |-> FALSE]

Completed(op, arg, out) ==
    [op |-> op, arg |-> arg, outcome |-> out.outcome, r |-> out.r, log |-> out.log,
     w |-> out.w,
     rep |-> (last.op = op /\ last.arg = arg
              /\ last.outcome = out.outcome
              /\ out.outcome \in {"returned", "answered"})]

InitialTitles(e) ==
    IF ~e.g.hasProcess THEN {Undefined}
    ELSE IF e.g.versions = {} THEN {InitialName, Undefined}
    ELSE {InitialName}

Init ==
    /\ env \in Envs
    /\ title \in InitialTitles(env)
    /\ argv0 = InitialName
    /\ comm = InitialName
    /\ denoLibcHandle = "null"
    /\ pend = <<>>
    /\ last = NoCall(World)

\* the call out of entry point op ends: its writes, and the record of it
Finish(op, arg, out) ==
    /\ title' = out.w.title
    /\ argv0' = out.w.argv0
    /\ comm' = out.w.comm
    /\ denoLibcHandle' = out.w.handle
    /\ last' = Completed(op, arg, out)

\* a caller calls setProcessNameSync(arg)
CallSetProcessNameSync(arg) ==
    /\ pend = <<>>
    /\ Finish("sync", arg, setProcessNameSync(env, World, arg))
    /\ UNCHANGED <<env, pend>>

\* a caller runs await setProcessName(arg)
CallSetProcessName(arg) ==
    /\ pend = <<>>
    /\ Finish("async", arg, awaitSetProcessName(env, World, arg))
    /\ UNCHANGED <<env, pend>>

Next ==
    \/ \E arg \in Args : CallSetProcessNameSync(arg)
    \/ \E arg \in Args : CallSetProcessName(arg)

Spec == Init /\ [][Next]_vars

-----------------------------------------------------------------------------
(* Callers that do not await: several calls of setProcessName in flight under
   Bun on Linux, each suspended at the import or at the await of the FFI
   helper, their steps interleaved *)

\* "ab" and the longest "abc..." name
FewArgs == { StringArg(<<97, 98>>), StringArg(Cyc(<<97, 98, 99>>, MaxLen)) }

InitInFlight ==
    /\ Init
    /\ detectRuntime(env) = "bun"
    /\ detectPlatform(env) = "linux"

\* the call out suspends at its import, or ends
StartOrFinish(arg, out) ==
    IF out.outcome = "pending"
    THEN /\ title' = out.w.title
         /\ argv0' = out.w.argv0
         /\ comm' = out.w.comm
         /\ denoLibcHandle' = out.w.handle
         /\ pend' = Append(pend, [arg |-> arg, r |-> out.r, log |-> out.log,
                                  pc |-> "import", ret |-> FALSE])
         /\ UNCHANGED last
    ELSE Finish("async", arg, out) /\ UNCHANGED pend

\* a caller calls setProcessName(arg) and does not wait for it
StartSetProcessName(arg) ==
    /\ Len(pend) < MaxInFlight
    /\ StartOrFinish(arg, setProcessName(env, World, arg))
    /\ UNCHANGED env

\* mutant of Settled: the title written after the import, with the comm name
Settled_WritesTitle(i, n) ==
    /\ title' = pend[i].arg.val
    /\ argv0' = n.w.argv0
    /\ comm' = n.w.comm
    /\ denoLibcHandle' = n.w.handle
    /\ pend' = [pend EXCEPT ![i] = [@ EXCEPT !.pc = "await", !.ret = n.ret,
                                             !.log = n.log]]

\* the FFI helper of call i has run to its end with n
Settled(i, n) ==
    /\ title' = n.w.title
    /\ argv0' = n.w.argv0
    /\ comm' = n.w.comm
    /\ denoLibcHandle' = n.w.handle
    /\ pend' = [pend EXCEPT ![i] = [@ EXCEPT !.pc = "await", !.ret = n.ret,
                                             !.log = n.log]]

\* import('bun:ffi') settles for call i: setProcessNameLinuxBunFFI runs on
BunImportSettles(i) ==
    /\ pend[i].pc = "import"
    /\ Settled(i, setProcessNameLinuxBunFFI(env, World, pend[i].log, pend[i].arg.val))
    /\ UNCHANGED <<env, last>>

\* call i resumes with the result of the FFI helper and returns
SetProcessNameResumes(i) ==
    /\ pend[i].pc = "await"
    /\ Finish("async", pend[i].arg,
              withPrctl(pend[i].r, [ret |-> pend[i].ret, w |-> World,
                                    log |-> pend[i].log]))
    /\ pend' = [j \in 1..(Len(pend) - 1) |-> IF j < i THEN pend[j] ELSE pend[j + 1]]
    /\ UNCHANGED env

NextInFlight ==
    \/ \E arg \in FewArgs : StartSetProcessName(arg)
    \/ \E i \in DOMAIN pend : BunImportSettles(i)
    \/ \E i \in DOMAIN pend : SetProcessNameResumes(i)

SpecInFlight == InitInFlight /\ [][NextInFlight]_vars

-----------------------------------------------------------------------------
(* Callers that also ask: the four query operations as calls of their own,
   each leaving its answer in last *)

\* "", "ab" and the longest "abc..." name
QueryArgs == FewArgs \cup { StringArg(<<>>) }

\* a query returns value, having called no facility
Answer(w, value) ==
    [outcome |-> "answered", r |-> [value |-> value], w |-> w, log |-> EmptyLog]

\* mutant of callGetCapabilities: the native capability found by opening the
\* library
callGetCapabilities_Probing(e, w) ==
    [outcome |-> "answered", r |-> [value |-> getCapabilities(e, w)],
     w |-> [w EXCEPT !.handle = "open"], log |-> LogDlopen(EmptyLog)]

\* getCapabilities() called in world w
callGetCapabilities(e, w) == Answer(w, getCapabilities(e, w))

\* getProcessName() called in world w
callGetProcessName(e, w) == Answer(w, getProcessName(e, w))

\* detectRuntime() and detectPlatform() called in world w
callDetectRuntime(e, w) == Answer(w, detectRuntime(e))
callDetectPlatform(e, w) == Answer(w, detectPlatform(e))

NoArg == NonStringArg("undefined")

GetCapabilities ==
    /\ pend = <<>>
    /\ Finish("getCapabilities", NoArg, callGetCapabilities(env, World))
    /\ UNCHANGED <<env, pend>>

GetProcessName ==
    /\ pend = <<>>
    /\ Finish("getProcessName", NoArg, callGetProcessName(env, World))
    /\ UNCHANGED <<env, pend>>

DetectRuntime ==
    /\ pend = <<>>
    /\ Finish("detectRuntime", NoArg, callDetectRuntime(env, World))
    /\ UNCHANGED <<env, pend>>

DetectPlatform ==
    /\ pend = <<>>
    /\ Finish("detectPlatform", NoArg, callDetectPlatform(env, World))
    /\ UNCHANGED <<env, pend>>

NextQueries ==
    \/ \E arg \in QueryArgs : CallSetProcessNameSync(arg)
    \/ \E arg \in QueryArgs : CallSetProcessName(arg)
    \/ GetCapabilities
    \/ GetProcessName
    \/ DetectRuntime
    \/ DetectPlatform

SpecQueries == Init /\ [][NextQueries]_vars

-----------------------------------------------------------------------------
(* Properties *)

Returned == last.op # "none" /\ last.outcome = "returned"
IsBool(x) == x \in {"true", "false"}
WorldVars == <<title, argv0, comm, denoLibcHandle>>

\* C1: in every environment getCapabilities().canSetPrctl is true exactly when
\* a call of setProcessName there returns a prctl field that is a boolean
C1_CapabilityMatchesSetter ==
    (Returned /\ last.op = "async")
        => (getCapabilities(env, World).canSetPrctl <=> IsBool(last.r.prctl))

\* C2: on a Linux host every call of setProcessName returns a boolean prctl,
\* and {success: true, processTitle: true, prctl: true, platform: 'linux'}
\* when the title reads back equal and the native facility reports success
C2_LinuxAlwaysAttemptsNative ==
    (Returned /\ last.op = "async" /\ detectPlatform(env) = "linux")
        => /\ IsBool(last.r.prctl)
           /\ (last.r.processTitle = "true" /\ env.native = "ok")
                => (last.r.success /\ last.r.prctl = "true"
                    /\ last.r.platform = "linux")

\* C3: a call of either entry point with a non-string argument ends in a
\* TypeError, returns no record, calls no facility and leaves the title,
\* argv0, the comm name and the cached library handle as they were
C3_TypeErrorBeforeAnyMechanism ==
    [][\A arg \in Args :
          (arg.type # "string"
           /\ (CallSetProcessNameSync(arg) \/ CallSetProcessName(arg)))
             => /\ last'.outcome = "TypeError"
                /\ last'.r = NoResult
                /\ last'.log = EmptyLog
                /\ UNCHANGED WorldVars]_vars

\* a non-string call made after a rename: the new title is still in place
C3_Witness ==
    /\ last.outcome = "TypeError"
    /\ title \notin {InitialName, Undefined}
    /\ denoLibcHandle = "open"

\* C4: a call of either entry point with a string argument returns a record
\* whose three outcome fields are well formed, whatever the facilities do
C4_StringNeverRaises ==
    (last.op # "none" /\ last.arg.type = "string")
        => /\ last.outcome = "returned"
           /\ last.r.success \in BOOLEAN
           /\ last.r.processTitle \in {"true", "false", "null"}
           /\ last.r.prctl \in {"true", "false", "null"}

\* a name longer than the limit returned a record although the title write,
\* the argv0 write and the native call all threw
C4_Witness ==
    /\ Returned
    /\ Len(last.arg.val) > NameLimit
    /\ env.titleMode = "throw" /\ env.argv0Mode = "throw"
    /\ env.native = "prctlThrows"
    /\ last.log.titleW # <<>> /\ last.log.prctlW # <<>>

\* C5: in every returned record success = (processTitle is true) or (prctl is
\* true)
C5_SuccessIsOr ==
    Returned
        => (last.r.success <=> (last.r.processTitle = "true" \/ last.r.prctl = "true"))

\* the title mechanism succeeded and the native one failed
C5_Witness ==
    /\ Returned
    /\ last.r.processTitle = "true" /\ last.r.prctl = "false"

\* C6: when the detected platform is not 'linux' every call returns prctl
\* null, and imports, loads and invokes nothing native
C6_NonLinuxNoNative ==
    (Returned /\ detectPlatform(env) # "linux")
        => /\ last.r.prctl = "null"
           /\ last.log.imp = 0 /\ last.log.dl = 0 /\ last.log.prctlW = <<>>
           /\ denoLibcHandle = "null"
           /\ comm = InitialName

\* Deno or Bun off Linux, the title write having failed
C6_Witness ==
    /\ Returned
    /\ detectPlatform(env) # "linux"
    /\ detectRuntime(env) \in {"bun", "deno"}
    /\ last.op = "async"
    /\ last.r.processTitle = "false"

\* C7: after a call that returned processTitle true, getProcessName() returns
\* the name the call was given
C7_RoundTrip ==
    (Returned /\ last.r.processTitle = "true")
        => getProcessName(env, World) = last.arg.val

\* C8: no buffer handed to prctl is longer than 16 bytes
C8_BufferWithinCommBytes ==
    \A i \in DOMAIN last.log.prctlW : Len(last.log.prctlW[i]) <= CommBytes

FirstUnits(n) == IF Len(n) <= NameLimit THEN n ELSE SubSeq(n, 1, NameLimit)

\* C9: when the native mechanism is invoked it is handed the name unchanged if
\* the name has at most 15 code units and its first 15 code units otherwise,
\* followed by the terminator; the title facility is handed the whole name;
\* and the native result is the status of the call, whatever the length
C9_TruncationBoundary ==
    (Returned /\ last.log.prctlW # <<>>)
        => /\ last.log.prctlS = <<FirstUnits(last.arg.val)>>
           /\ last.log.prctlW = <<Utf8(FirstUnits(last.arg.val) \o <<0>>)>>
           /\ env.g.hasProcess => last.log.titleW = <<last.arg.val>>
           /\ (env.g.hasProcess /\ env.titleMode = "store")
                => last.r.processTitle = "true"
           /\ last.r.prctl = B(env.native \notin {"prctlThrows", "prctlFails"})

\* a name of 16 code units went to both mechanisms and both succeeded
C9_Witness ==
    /\ Returned
    /\ Len(last.arg.val) > NameLimit
    /\ last.log.prctlW # <<>>
    /\ last.r.processTitle = "true" /\ last.r.prctl = "true"
    /\ Len(last.log.prctlS[1]) = NameLimit

\* C10: a call of setProcessName that follows a returned call of it with the
\* same name returns an equal record and leaves the title, argv0 and the comm
\* name as the first call left them
C10_Idempotent ==
    [][\A arg \in Args :
          (last.op = "async" /\ last.outcome = "returned" /\ last.arg = arg
           /\ CallSetProcessName(arg))
             => /\ last'.outcome = "returned"
                /\ last'.r = last.r
                /\ UNCHANGED <<title, argv0, comm>>]_vars

\* the second of two equal calls under Deno on Linux used the cached handle
C10_Witness ==
    /\ Returned /\ last.rep /\ last.op = "async"
    /\ detectRuntime(env) = "deno"
    /\ last.log.dl = 0
    /\ last.r.prctl = "true"

\* the three systems detectPlatform recognises, under the name the host gives
HostIsRecognised(e) ==
    IF e.g.hasDeno THEN e.g.denoOs \in {"linux", "darwin", "windows"}
    ELSE e.g.hasProcess /\ e.g.platform \in {"linux", "darwin", "win32"}

\* C11: in every execution context detectPlatform returns one of 'linux',
\* 'darwin', 'win32', 'unknown', and it returns 'unknown' whenever the host's
\* platform identifier is not one of the three recognised systems
C11_PlatformIsOneOfFour ==
    /\ detectPlatform(env) \in {"linux", "darwin", "win32", "unknown"}
    /\ ~HostIsRecognised(env) => detectPlatform(env) = "unknown"

\* C12: getCapabilities().canSetTitle is true exactly when a call of
\* setProcessName made next in the same environment returns a processTitle
\* that is a boolean
C12_CanSetTitleMatchesSetter ==
    [][\A arg \in Args :
          (arg.type = "string" /\ CallSetProcessName(arg))
             => (getCapabilities(env, World).canSetTitle
                    <=> IsBool(last'.r.processTitle))]_vars

\* C13: getProcessName returns the current title whenever the title facility
\* is available, the empty title included, and null only when it is not
C13_ReturnsTitleWhenAvailable ==
    IF env.g.hasProcess /\ title # Undefined
    THEN getProcessName(env, World) = title
    ELSE getProcessName(env, World) = Null

\* C14: a call of either entry point with a string argument, the empty string
\* included, returns; its processTitle is a boolean when the process object
\* is defined and null when it is not
C14_TitleFieldBooleanIffFacility ==
    (last.op # "none" /\ last.arg.type = "string")
        => /\ last.outcome = "returned"
           /\ env.g.hasProcess => IsBool(last.r.processTitle)
           /\ ~env.g.hasProcess => last.r.processTitle = "null"

\* the empty name given to a title facility that throws
C14_Witness ==
    /\ Returned
    /\ last.arg.val = <<>>
    /\ env.g.hasProcess /\ env.titleMode = "throw"
    /\ last.r.processTitle = "false"

NeedsDynamicLoad(e) == detectPlatform(e) = "linux" /\ detectRuntime(e) = "bun"

\* the records of the call s of setProcessNameSync and the call a of
\* setProcessName differ in no field but prctl
DifferOnlyInNative(s, a) ==
    /\ s.outcome = "returned" /\ a.outcome = "returned"
    /\ [s.r EXCEPT !.prctl = "null"] = [a.r EXCEPT !.prctl = "null"]

\* C15, as stated: for the same name in the same environment the records of
\* setProcessNameSync and of setProcessName differ in the prctl field at most
C15_DifferOnlyInNative ==
    \A n \in Names :
        DifferOnlyInNative(setProcessNameSync(env, World, StringArg(n)),
                           awaitSetProcessName(env, World, StringArg(n)))

\* the records agree on runtime, platform and processTitle; under Bun on Linux
\* the blocking call reports prctl null, the asynchronous one a boolean, and
\* success differs only by being true in the asynchronous record alone;
\* everywhere else the records are equal
AgreeButForNative(e, s, a) ==
    /\ s.outcome = "returned" /\ a.outcome = "returned"
    /\ s.r.runtime = a.r.runtime
    /\ s.r.platform = a.r.platform
    /\ s.r.processTitle = a.r.processTitle
    /\ IF NeedsDynamicLoad(e)
       THEN /\ s.r.prctl = "null" /\ IsBool(a.r.prctl)
            /\ s.r.success = (s.r.processTitle = "true")
            /\ a.r.success = (s.r.success \/ a.r.prctl = "true")
       ELSE s.r = a.r

\* C15, amended: for the same name in the same environment the two records
\* agree on runtime, platform and processTitle and are equal except under Bun
\* on Linux, where they differ in prctl and, following it, in success
C15_SyncAsyncAgreeButForNative ==
    \A n \in Names :
        AgreeButForNative(env, setProcessNameSync(env, World, StringArg(n)),
                          awaitSetProcessName(env, World, StringArg(n)))

\* under Bun on Linux the asynchronous call renamed the process natively and
\* the blocking call with the same name would leave prctl null
C15_Witness ==
    /\ Returned /\ last.op = "async"
    /\ NeedsDynamicLoad(env)
    /\ last.r.prctl = "true" /\ last.r.processTitle = "false"
    /\ setProcessNameSync(env, World, last.arg).r.prctl = "null"

\* the entry point op attempts the native mechanism in environment e
NativeAttempted(e, op) ==
    /\ detectPlatform(e) = "linux"
    /\ \/ detectRuntime(e) = "deno"
       \/ detectRuntime(e) = "bun" /\ op = "async"

\* the last call invoked the native facility and it returned status 0
StatusZero ==
    /\ last.log.prctlW # <<>>
    /\ env.native \notin {"prctlThrows", "prctlFails"}

\* C16: a call that attempts the native mechanism returns, with prctl true
\* when the native facility returned status 0 and false when it returned
\* another status, threw, or could not be loaded or imported
C16_NativeStatusRecorded ==
    (last.op # "none" /\ last.arg.type = "string" /\ NativeAttempted(env, last.op))
        => /\ last.outcome = "returned"
           /\ last.r.prctl = B(StatusZero)
           /\ StatusZero => comm = KernelComm(last.log.prctlW[1])
           /\ env.native \in {"dlopenFails", "prctlThrows", "prctlFails"}
                => last.r.prctl = "false"
           /\ (env.native = "importFails" /\ detectRuntime(env) = "bun")
                => last.r.prctl = "false"

\* the library could not be opened: prctl false, and the title carried the
\* success
C16_Witness ==
    /\ Returned
    /\ env.native = "dlopenFails"
    /\ last.log.dl = 1 /\ last.log.prctlW = <<>>
    /\ last.r.prctl = "false" /\ last.r.success

\* C17: every returned record has runtime = detectRuntime() and platform =
\* detectPlatform(), the values getCapabilities() reports and the other entry
\* point returns
C17_RecordEchoesDetection ==
    Returned
        => /\ last.r.runtime = detectRuntime(env)
           /\ last.r.platform = detectPlatform(env)
           /\ last.r.runtime = getCapabilities(env, World).runtime
           /\ last.r.platform = getCapabilities(env, World).platform
           /\ last.r.runtime = setProcessNameSync(env, World, last.arg).r.runtime
           /\ last.r.platform = awaitSetProcessName(env, World, last.arg).r.platform

\* under Deno on FreeBSD, where the process shim names a platform of its own
C17_Witness ==
    /\ Returned
    /\ env.g.hasDeno /\ env.g.hasProcess /\ env.g.denoOs = "freebsd"
    /\ last.r.runtime = "deno" /\ last.r.platform = "unknown"

\* C18: detectRuntime returns 'deno' whenever a Deno global exists, otherwise
\* 'bun' whenever process.versions.bun is set, otherwise 'node' when
\* process.versions.node is set, otherwise 'unknown'
C18_RuntimePriority ==
    /\ detectRuntime(env) \in {"node", "bun", "deno", "unknown"}
    /\ env.g.hasDeno => detectRuntime(env) = "deno"
    /\ (~env.g.hasDeno /\ env.g.hasProcess /\ "bun" \in env.g.versions)
          => detectRuntime(env) = "bun"
    /\ (~env.g.hasDeno /\ env.g.hasProcess /\ "bun" \notin env.g.versions
        /\ "node" \in env.g.versions)
          => detectRuntime(env) = "node"
    /\ (~env.g.hasDeno /\ (~env.g.hasProcess \/ env.g.versions = {}))
          => detectRuntime(env) = "unknown"
    /\ Returned => last.r.runtime = detectRuntime(env)

\* a call under Deno with a process global whose versions name node
C18_Witness ==
    /\ Returned
    /\ env.g.hasDeno /\ env.g.hasProcess /\ "node" \in env.g.versions
    /\ last.r.runtime = "deno"

\* C19: a call in an environment with a process object writes the whole name
\* to the title once; processTitle is true exactly when the title then reads
\* back equal to the name, false when it reads back different or the write
\* threw, and after a throw success is the native result alone
C19_TitleVerbatimAndReadBack ==
    (Returned /\ env.g.hasProcess)
        => /\ last.log.titleW = <<last.arg.val>>
           /\ env.titleMode = "store"
                => (title = last.arg.val /\ last.r.processTitle = "true")
           /\ env.titleMode # "throw"
                => last.r.processTitle = B(title = last.arg.val)
           /\ env.titleMode = "throw"
                => /\ last.r.processTitle = "false"
                   /\ last.r.success <=> (last.r.prctl = "true")

\* a name longer than the native limit is the title, whole
C19_Witness ==
    /\ Returned
    /\ Len(last.arg.val) > NameLimit
    /\ env.titleMode = "store"
    /\ title = last.arg.val
    /\ last.r.processTitle = "true"

\* C20: one call writes the title at most once, imports and loads the library
\* at most once and invokes prctl at most once, the title before prctl
C20_EachMechanismAtMostOnce ==
    last.op # "none"
        => /\ Len(last.log.titleW) <= 1
           /\ Len(last.log.argvW) <= 1
           /\ last.log.imp <= 1
           /\ last.log.dl <= 1
           /\ Len(last.log.prctlW) <= 1
           /\ last.log.order \in {<<>>, <<"title">>, <<"prctl">>, <<"title", "prctl">>}

\* both mechanisms were tried once and both failed
C20_Witness ==
    /\ Returned
    /\ last.log.order = <<"title", "prctl">>
    /\ last.log.dl = 1
    /\ last.r.processTitle = "false" /\ last.r.prctl = "false"
    /\ ~last.r.success

\* C21: the cached Deno library handle is null until a call under Deno on
\* Linux opens it; a call that finds it null tries to open it, once, and
\* leaves it null when that fails; a call that finds it open does not open
\* again, and no step closes, replaces or resets it
C21_HandleIsLazySingleton ==
    [][/\ denoLibcHandle' \in {"null", "open"}
       /\ denoLibcHandle # "null"
            => (denoLibcHandle' = denoLibcHandle /\ last'.log.dl = 0)
       /\ (denoLibcHandle = "null" /\ denoLibcHandle' # "null")
            => /\ last'.log.dl = 1
               /\ detectRuntime(env) = "deno" /\ detectPlatform(env) = "linux"
               /\ env.native # "dlopenFails"
       /\ (denoLibcHandle = "null" /\ last'.arg.type = "string"
           /\ detectRuntime(env) = "deno" /\ detectPlatform(env) = "linux")
            => /\ last'.log.dl = 1
               /\ denoLibcHandle' = IF env.native = "dlopenFails" THEN "null"
                                    ELSE "open"]_vars

\* setProcessNameSync went through the handle an earlier call had opened
C21_Witness ==
    /\ Returned /\ last.op = "sync"
    /\ denoLibcHandle = "open"
    /\ last.log.dl = 0
    /\ last.log.prctlW # <<>>

IsQuery(op) == op \in {"getCapabilities", "getProcessName", "detectRuntime", "detectPlatform"}

\* C22: a call of getCapabilities, getProcessName, detectRuntime or
\* detectPlatform leaves the title, argv0, the comm name and the cached
\* library handle as they were and calls no facility, and getCapabilities
\* called twice in a row returns the same snapshot
C22_QueriesHaveNoEffect ==
    [][(GetCapabilities \/ GetProcessName \/ DetectRuntime \/ DetectPlatform)
          => /\ UNCHANGED WorldVars
             /\ last'.log = EmptyLog
             /\ last'.outcome = "answered"
             /\ (GetCapabilities /\ last.op = "getCapabilities")
                   => last'.r = last.r]_vars

\* getCapabilities asked twice after a call under Deno on Linux that opened
\* the library
C22_Witness ==
    /\ last.op = "getCapabilities" /\ last.rep
    /\ detectRuntime(env) = "deno" /\ detectPlatform(env) = "linux"
    /\ denoLibcHandle = "open"
    /\ title \notin {InitialName, Undefined}

\* the title a write of name leaves behind in environment e
TitleAfterWrite(e, name) ==
    IF e.titleMode = "store" THEN name
    ELSE IF e.titleMode = "clip" THEN Slice(name, TitleCap)
    ELSE title

\* C23: with calls of setProcessName in flight together, the title is the one
\* the latest title write left: a call writes it when it starts and no later
\* step of any call changes it; no call raises; and the record a call returns
\* is the one it returns when it runs alone
C23_LastTitleWriteWins ==
    [][/\ \A arg \in FewArgs :
            StartSetProcessName(arg) => title' = TitleAfterWrite(env, arg.val)
       /\ (\E i \in DOMAIN pend : BunImportSettles(i) \/ SetProcessNameResumes(i))
            => title' = title
       /\ last'.outcome \in {"none", "returned"}
       /\ last' # last
            => last'.r = awaitSetProcessName(env, World, last'.arg).r]_vars

\* the call that started first returned last, and the title is the other's
C23_Witness ==
    /\ Returned /\ pend = <<>>
    /\ env.titleMode = "store"
    /\ title # last.arg.val
    /\ title # InitialName
    /\ last.r.processTitle = "true"

\* C24: under Bun on Linux, after a call of setProcessName that returned with
\* processTitle true and prctl true, the comm name is the first 15 characters
\* of the title
C24_CommFollowsTitle ==
    (Returned /\ last.op = "async" /\ NeedsDynamicLoad(env)
     /\ last.r.processTitle = "true" /\ last.r.prctl = "true")
        => comm = CString(Utf8(Slice(title, NameLimit)))

\* the libraries the last call opened: its dlopen calls that did not throw
LibrariesOpened == IF DlopenThrows(env) THEN 0 ELSE last.log.dl

\* C25: under Bun every library a call of setProcessName opened has been
\* closed when the call returns, also when the native call threw
C25_BunHandleClosed ==
    (Returned /\ last.op = "async" /\ NeedsDynamicLoad(env))
        => last.log.cl = LibrariesOpened

====
